---- MODULE Spec2Model ----
(***************************************************************************)
(* Model of video_filter_rs (src/src/main.rs): the transcode loop of main  *)
(* with Decoder::decode_frames / encode_frames, the stream mapping, the    *)
(* scan map of RenderData::new, the luminance-to-glyph index, the font     *)
(* auto-fit loop of construct_char_set, and the stamping of the glyphs     *)
(* into the one out_frame of Decoder.                                      *)
(***************************************************************************)
EXTENDS Integers, Sequences, FiniteSets, TLC

(***************************************************************************)
(* Bounds of the model.                                                    *)
(***************************************************************************)
MaxStreams == 3   \* input streams in the container
MaxPackets == 3   \* demultiplexer reads in one run
MaxDelay == 2     \* frames / packets a codec may hold back internally

(***************************************************************************)
(* State of the transcode pipeline (main, lines 215-372).                  *)
(***************************************************************************)
VARIABLES
  kinds,           \* in_ctx.streams(): stream index -> media type
  in_vid_stream_idx,
  stream_mapping,  \* input stream index -> out_stream_idx, or -1
  outStreams,      \* out_ctx's streams in creation order: what each one copies
  pc,              \* position of main
  phase,           \* "main": inside the packet loop, "close": lines 368-372
  nread,           \* demultiplexer reads so far
  cur,             \* stream index of the packet being handled
  decHeld,         \* frames inside the decoder, not yet available
  decReady,        \* frames receive_frame can return now
  decEof,          \* send_eof was accepted by the decoder
  decDrained,      \* since the last feed, receive_frame has reported that no
                   \* frame is available (EAGAIN, or EOF after send_eof)
  encHeld,         \* packets inside the encoder, not yet available
  encReady,        \* packets receive_packet can return now
  encEof,          \* send_eof was accepted by the encoder
  encDrained,      \* since the last feed, receive_packet has reported that no
                   \* packet is available
  outLog,          \* packets written: <<output stream index, origin>>, the
                   \* origin <<"enc", 0>> or <<"copy", input stream index>>
  fed,             \* video packets accepted by the decoder
  framesToEnc,     \* frames accepted by the encoder
  vidWritten,      \* encoder packets written to the container
  copyWritten,     \* packets of copied streams written to the container
  trailers,        \* write_trailer calls that succeeded
  errSeen,         \* some library call returned a real error
  scan,            \* main's derived sizes and the RenderData built from them
  bucket,          \* the glyph index of decode_frames over a luminance ramp
  fit,             \* construct_char_set: the font auto-fit loop
  comp             \* Decoder::new and decode_frames: the reused out_frame

pipeVars == <<kinds, in_vid_stream_idx, stream_mapping, outStreams, pc, phase,
              nread, cur, decHeld, decReady, decEof, decDrained, encHeld,
              encReady, encEof, encDrained, outLog, fed, framesToEnc,
              vidWritten, copyWritten, trailers, errSeen>>

otherVars == <<scan, bucket, fit, comp>>

vars == <<pipeVars, otherVars>>

Kinds == {"Video", "Audio", "Unknown"}

(***************************************************************************)
(* Lines 285-309: the loop that fills stream_mapping and adds the copies   *)
(* of the non-video streams to the output.  out_stream_idx is the loop's   *)
(* own counter; outs is the list of streams out_ctx really holds.          *)
(***************************************************************************)
RECURSIVE MapLoop(_, _, _, _, _, _)
MapLoop(ks, vid, i, out_stream_idx, m, outs) ==
  IF i \notin DOMAIN ks THEN [map |-> m, outs |-> outs]
  ELSE IF i = vid
    THEN MapLoop(ks, vid, i + 1, out_stream_idx + 1,
                 [m EXCEPT ![i] = out_stream_idx], outs)
  ELSE IF ks[i] # "Video" /\ ks[i] # "Unknown"
    THEN MapLoop(ks, vid, i + 1, out_stream_idx + 1,
                 [m EXCEPT ![i] = out_stream_idx],
                 Append(outs, <<"copy", i>>))
  ELSE MapLoop(ks, vid, i + 1, out_stream_idx, m, outs)

\* Lines 249-254: the encoder's stream is the first stream added to out_ctx.
OutVideoStreams == << <<"enc", 0>> >>

\* out_vid_stream.index() of line 253.
out_vid_stream_idx == Len(OutVideoStreams) - 1

BuildStreams(ks, vid) ==
  MapLoop(ks, vid, 0, 0, [i \in DOMAIN ks |-> -1], OutVideoStreams)

(***************************************************************************)
(* Control flow of main.                                                   *)
(***************************************************************************)
\* Line 369 follows the packet loop.
AfterPackets == "dec_eof"

\* decode_frames returns to line 353 (packet loop) or line 370 (close).
AfterDecode(ph) == IF ph = "main" THEN "encode" ELSE "enc_eof"

\* encode_frames returns to line 361 (packet loop) or line 372 (close).
AfterEncode(ph) == IF ph = "main" THEN "read" ELSE "trailer"

Panic ==
  /\ pc' = "panicked"
  /\ errSeen' = TRUE

PipeInit ==
  /\ \E n \in 1..MaxStreams :
       /\ kinds \in [0..(n - 1) -> Kinds]
       /\ in_vid_stream_idx \in {i \in 0..(n - 1) : kinds[i] = "Video"}
  /\ stream_mapping = <<>>
  /\ outStreams = <<>>
  /\ pc = "setup"
  /\ phase = "main"
  /\ nread = 0
  /\ cur = -1
  /\ decHeld = 0 /\ decReady = 0 /\ decEof = FALSE /\ decDrained = FALSE
  /\ encHeld = 0 /\ encReady = 0 /\ encEof = FALSE /\ encDrained = FALSE
  /\ outLog = {}
  /\ fed = 0 /\ framesToEnc = 0 /\ vidWritten = 0 /\ copyWritten = 0
  /\ trailers = 0
  /\ errSeen = FALSE

PipeIdle ==
  /\ kinds = <<>> /\ in_vid_stream_idx = 0
  /\ stream_mapping = <<>> /\ outStreams = <<>>
  /\ pc = "off" /\ phase = "main" /\ nread = 0 /\ cur = -1
  /\ decHeld = 0 /\ decReady = 0 /\ decEof = FALSE /\ decDrained = FALSE
  /\ encHeld = 0 /\ encReady = 0 /\ encEof = FALSE /\ encDrained = FALSE
  /\ outLog = {}
  /\ fed = 0 /\ framesToEnc = 0 /\ vidWritten = 0 /\ copyWritten = 0
  /\ trailers = 0
  /\ errSeen = FALSE

\* Lines 245-318: output streams and the stream mapping.
Setup ==
  /\ pc = "setup"
  /\ UNCHANGED otherVars
  /\ LET r == BuildStreams(kinds, in_vid_stream_idx) IN
       /\ stream_mapping' = r.map
       /\ outStreams' = r.outs
  /\ pc' = "read"
  /\ UNCHANGED <<kinds, in_vid_stream_idx, phase, nread, cur, decHeld,
                 decReady, decEof, decDrained, encHeld, encReady, encEof,
                 encDrained, outLog, fed, framesToEnc, vidWritten, copyWritten,
                 trailers, errSeen>>

codecVars == <<decHeld, decReady, decEof, decDrained, encHeld, encReady,
               encEof, encDrained>>
setupVars == <<kinds, in_vid_stream_idx, stream_mapping, outStreams>>
countVars == <<outLog, fed, framesToEnc, vidWritten, copyWritten, trailers>>

\* Lines 342-354: the demultiplexer yields a packet of stream s.
ReadPacket ==
  /\ pc = "read"
  /\ UNCHANGED otherVars
  /\ nread < MaxPackets
  /\ \E s \in DOMAIN kinds :
       /\ cur' = s
       /\ pc' = IF stream_mapping[s] < 0 THEN "read"
                ELSE IF s = in_vid_stream_idx THEN "send_packet"
                ELSE "passthrough"
  /\ nread' = nread + 1
  /\ UNCHANGED <<setupVars, codecVars, countVars, phase, errSeen>>

\* Line 342: filter_map(Result::ok) drops a read that returned an error.
ReadError ==
  /\ pc = "read"
  /\ UNCHANGED otherVars
  /\ nread < MaxPackets
  /\ nread' = nread + 1
  /\ errSeen' = TRUE
  /\ UNCHANGED <<setupVars, codecVars, countVars, phase, pc, cur>>

\* Line 342: the iterator ends at the end of the input.
ReadEnd ==
  /\ pc = "read"
  /\ UNCHANGED otherVars
  /\ pc' = AfterPackets
  /\ phase' = "close"
  /\ UNCHANGED <<setupVars, codecVars, countVars, nread, cur, errSeen>>

\* Lines 355-358: a packet of a copied stream.
Passthrough ==
  /\ pc = "passthrough"
  /\ UNCHANGED otherVars
  /\ LET o == stream_mapping[cur] IN
       IF o + 1 \in DOMAIN outStreams
       THEN \/ /\ outLog' = outLog \cup {<<o, <<"copy", cur>> >>}
               /\ copyWritten' = copyWritten + 1
               /\ pc' = "read"
               /\ UNCHANGED errSeen
            \/ /\ Panic
               /\ UNCHANGED <<outLog, copyWritten>>
       ELSE /\ Panic
            /\ UNCHANGED <<outLog, copyWritten>>
  /\ UNCHANGED <<setupVars, codecVars, fed, framesToEnc, vidWritten, trailers,
                 phase, nread, cur>>

\* Frames the decoder (packets the encoder) may make available after a feed
\* that leaves h inside: any number, as long as at most MaxDelay stay inside.
Releases(h) == {r \in 0..h : h - r <= MaxDelay}

\* Lines 86-88 and 351: Decoder::send_packet.
SendPacket ==
  /\ pc = "send_packet"
  /\ UNCHANGED otherVars
  /\ \/ /\ \E r \in Releases(decHeld + 1) :
             /\ decHeld' = decHeld + 1 - r
             /\ decReady' = decReady + r
        /\ decDrained' = FALSE
        /\ fed' = fed + 1
        /\ pc' = "decode"
        /\ UNCHANGED errSeen
     \/ /\ Panic
        /\ UNCHANGED <<decHeld, decReady, decDrained, fed>>
  /\ UNCHANGED <<setupVars, decEof, encHeld, encReady, encEof, encDrained,
                 outLog, framesToEnc, vidWritten, copyWritten, trailers, phase,
                 nread, cur>>

\* Lines 57-83: one iteration of the loop of decode_frames whose
\* receive_frame returned a frame: scale, stamp, send_frame.
DecodeFrame ==
  /\ pc = "decode"
  /\ UNCHANGED otherVars
  /\ decReady > 0
  /\ decReady' = decReady - 1
  /\ \/ /\ \E r \in Releases(encHeld + 1) :
             /\ encHeld' = encHeld + 1 - r
             /\ encReady' = encReady + r
        /\ encDrained' = FALSE
        /\ framesToEnc' = framesToEnc + 1
        /\ UNCHANGED <<pc, errSeen>>
     \/ /\ Panic      \* scaler.run(..).unwrap() or send_frame(..).unwrap()
        /\ UNCHANGED <<encHeld, encReady, encDrained, framesToEnc>>
  /\ UNCHANGED <<setupVars, decHeld, decEof, decDrained, encEof, outLog, fed,
                 vidWritten, copyWritten, trailers, phase, nread, cur>>

\* Line 57: receive_frame has no frame (EAGAIN, or EOF after send_eof): the
\* loop ends.
DecodeStop ==
  /\ pc = "decode"
  /\ UNCHANGED otherVars
  /\ decReady = 0
  /\ decDrained' = TRUE
  /\ pc' = AfterDecode(phase)
  /\ UNCHANGED <<setupVars, decHeld, decReady, decEof, encHeld, encReady,
                 encEof, encDrained, countVars, phase, nread, cur, errSeen>>

\* Line 57: receive_frame returned an error: is_ok() is false, the loop ends
\* the same way.
DecodeError ==
  /\ pc = "decode"
  /\ UNCHANGED otherVars
  /\ errSeen' = TRUE
  /\ pc' = AfterDecode(phase)
  /\ UNCHANGED <<setupVars, codecVars, countVars, phase, nread, cur>>

\* Lines 98-103: one iteration of the loop of encode_frames whose
\* receive_packet returned a packet.
EncodePacket ==
  /\ pc = "encode"
  /\ UNCHANGED otherVars
  /\ encReady > 0
  /\ encReady' = encReady - 1
  /\ \/ /\ outLog' = outLog \cup {<<out_vid_stream_idx, <<"enc", 0>> >>}
        /\ vidWritten' = vidWritten + 1
        /\ UNCHANGED <<pc, errSeen>>
     \/ /\ Panic      \* write_interleaved(..).unwrap()
        /\ UNCHANGED <<outLog, vidWritten>>
  /\ UNCHANGED <<setupVars, decHeld, decReady, decEof, decDrained, encHeld,
                 encEof, encDrained, fed, framesToEnc, copyWritten, trailers,
                 phase, nread, cur>>

\* Line 98: receive_packet has no packet: the loop ends.
EncodeStop ==
  /\ pc = "encode"
  /\ UNCHANGED otherVars
  /\ encReady = 0
  /\ encDrained' = TRUE
  /\ pc' = AfterEncode(phase)
  /\ UNCHANGED <<setupVars, decHeld, decReady, decEof, decDrained, encHeld,
                 encReady, encEof, countVars, phase, nread, cur, errSeen>>

\* Line 98: receive_packet returned an error: the loop ends the same way.
EncodeError ==
  /\ pc = "encode"
  /\ UNCHANGED otherVars
  /\ errSeen' = TRUE
  /\ pc' = AfterEncode(phase)
  /\ UNCHANGED <<setupVars, codecVars, countVars, phase, nread, cur>>

\* Lines 90-93 and 369: Decoder::end sends EOF and runs decode_frames.
DecoderEnd ==
  /\ pc = "dec_eof"
  /\ UNCHANGED otherVars
  /\ \/ /\ decEof' = TRUE
        /\ decReady' = decReady + decHeld
        /\ decHeld' = 0
        /\ decDrained' = FALSE
        /\ pc' = "decode"
        /\ UNCHANGED errSeen
     \/ /\ Panic
        /\ UNCHANGED <<decEof, decReady, decHeld, decDrained>>
  /\ UNCHANGED <<setupVars, encHeld, encReady, encEof, encDrained, countVars,
                 phase, nread, cur>>

\* Lines 370-371: encoder.send_eof, then encode_frames.
EncoderEof ==
  /\ pc = "enc_eof"
  /\ UNCHANGED otherVars
  /\ \/ /\ encEof' = TRUE
        /\ encReady' = encReady + encHeld
        /\ encHeld' = 0
        /\ encDrained' = FALSE
        /\ pc' = "encode"
        /\ UNCHANGED errSeen
     \/ /\ Panic
        /\ UNCHANGED <<encEof, encReady, encHeld, encDrained>>
  /\ UNCHANGED <<setupVars, decHeld, decReady, decEof, decDrained, countVars,
                 phase, nread, cur>>

\* Line 372: write_trailer.
WriteTrailer ==
  /\ pc = "trailer"
  /\ UNCHANGED otherVars
  /\ \/ /\ trailers' = trailers + 1
        /\ pc' = "done"
        /\ UNCHANGED errSeen
     \/ /\ Panic
        /\ UNCHANGED trailers
  /\ UNCHANGED <<setupVars, codecVars, outLog, fed, framesToEnc, vidWritten,
                 copyWritten, phase, nread, cur>>

(***************************************************************************)
(* 32-bit floating point, on the non-negative integers the program feeds   *)
(* it: a value is kept when it has at most 24 significant bits and is      *)
(* rounded to the nearest such value, ties to even, otherwise.             *)
(***************************************************************************)
RECURSIVE Pow2(_)
Pow2(k) == IF k = 0 THEN 1 ELSE 2 * Pow2(k - 1)

RECURSIVE FloorLog2(_)
FloorLog2(n) == IF n < 2 THEN 0 ELSE 1 + FloorLog2(n \div 2)

\* The least c with 2^c >= n.
CeilLog2(n) == IF n <= 1 THEN 0 ELSE 1 + FloorLog2(n - 1)

\* `n as f32`, and the rounding of an exact product or sum n.
F32Round(n) ==
  IF n < Pow2(24) THEN n
  ELSE LET u == Pow2(FloorLog2(n) - 23)
           q == n \div u
           r == n % u
       IN IF 2 * r > u \/ (2 * r = u /\ q % 2 = 1) THEN (q + 1) * u ELSE q * u

\* (a * b) of two f32 values.
F32Mul(a, b) == F32Round(a * b)

\* (p / g) as usize: the f32 quotient, truncated.  The quotient lies between
\* k = p div g and k + 1; it is k + 1 exactly when the division rounds up to
\* k + 1, that is when k + 1 - p/g is below half of the spacing of the f32
\* values under k + 1 (or equal to it, and k + 1 has the even significand).
F32DivTrunc(p, g) ==
  LET k == p \div g
      r == p % g
      t == Pow2(25 - CeilLog2(k + 1))
      d == g - r
  IN IF r = 0 THEN k
     ELSE IF d <= (g - 1) \div t THEN k + 1
     ELSE IF g % t = 0 /\ d = g \div t /\ (t > 2 \/ (k + 1) % 2 = 0) THEN k + 1
     ELSE k

\* Lines 23-24: (x as f32 * dst_w as f32 / r_w as f32) as usize.
ScanCoord(i, dst, r) ==
  F32DivTrunc(F32Mul(F32Round(i), F32Round(dst)), F32Round(r))

\* Lines 17-26: RenderData::new.
RenderDataNew(r_w, r_h, dst_w, dst_h) ==
  [r_w |-> r_w, r_h |-> r_h, dst_w |-> dst_w, dst_h |-> dst_h,
   x |-> [i \in 1..r_w |-> ScanCoord(i - 1, dst_w, r_w)],
   y |-> [i \in 1..r_h |-> ScanCoord(i - 1, dst_h, r_h)]]

(***************************************************************************)
(* main, lines 199-243 and 321-328: the sizes derived from the settings    *)
(* and from what construct_char_set returns, and the RenderData.           *)
(***************************************************************************)
MaxDstH == 12     \* dst_h of the settings
MaxRenderH == 4   \* render_h of the settings
MaxFontW == 3     \* glyph width construct_char_set may return

\* <<dst_h, render_h>> of the settings: every small pair, and two large ones.
Settings ==
  {<<d, r>> : d \in 1..MaxDstH, r \in 0..MaxRenderH}
    \cup {<<4098, 4097>>, <<5794, 5794>>}

\* <<width, height>> of the decoded video.
SrcSizes == {<<1, 1>>, <<4, 3>>, <<16, 9>>}

ScanIdle == scan = [pc |-> "off"]

ScanInit ==
  \E st \in Settings, src \in SrcSizes :
    scan = [pc |-> "settings", dst_h |-> st[1], render_h |-> st[2],
            src_w |-> src[1], src_h |-> src[2]]

\* Lines 229-238.
DeriveSizes ==
  /\ scan.pc = "settings"
  /\ UNCHANGED <<pipeVars, bucket, fit, comp>>
  /\ IF scan.render_h = 0
     THEN scan' = [pc |-> "panicked"]       \* assert!(render_h != 0)
     ELSE LET w == (scan.dst_h * scan.src_w) \div scan.src_h
              dst_w == w - (w % 2)
              dst_h == scan.dst_h - (scan.dst_h % 2)
          IN scan' = [pc |-> "font", dst_w |-> dst_w, dst_h |-> dst_h,
                      render_h |-> scan.render_h,
                      font_h |-> dst_h \div scan.render_h]

\* Lines 242-243 and 321-327: construct_char_set returns glyphs of font_w
\* columns and glyph_h <= font_h rows (the exit condition of its loop);
\* render_w = dst_w / font_w; the scaler is created for render_w x render_h.
FontAndScaler ==
  /\ scan.pc = "font"
  /\ UNCHANGED <<pipeVars, bucket, fit, comp>>
  /\ \E font_w \in 0..MaxFontW, glyph_h \in {0, scan.font_h} :
       IF font_w = 0 \/ scan.dst_w \div font_w = 0
       THEN scan' = [pc |-> "panicked"]     \* division by zero; no scaler
       ELSE scan' = [pc |-> "sized", dst_w |-> scan.dst_w,
                     dst_h |-> scan.dst_h, render_h |-> scan.render_h,
                     render_w |-> scan.dst_w \div font_w,
                     font_h |-> scan.font_h, font_w |-> font_w,
                     glyph_h |-> glyph_h]

\* Line 328.
NewRenderData ==
  /\ scan.pc = "sized"
  /\ UNCHANGED <<pipeVars, bucket, fit, comp>>
  /\ LET rd == RenderDataNew(scan.render_w, scan.render_h, scan.dst_w,
                             scan.dst_h)
     IN scan' = [pc |-> "built", dst_w |-> scan.dst_w, dst_h |-> scan.dst_h,
                 font_h |-> scan.font_h, font_w |-> scan.font_w,
                 glyph_h |-> scan.glyph_h, rd |-> rd]

ScanNext ==
  \/ DeriveSizes
  \/ FontAndScaler
  \/ NewRenderData

(***************************************************************************)
(* decode_frames, lines 56 and 66-78: the glyph chosen for a luminance     *)
(* sample.  The scaled frame is a ramp: sample i of the row has value i.   *)
(***************************************************************************)
MaxGlyphs == 256  \* characters in the character set

\* char_idx computed with the factor 1/255 instead of 1/256.
CharIdxOver255(lum, n) == (lum * n) \div 255

\* Lines 56 and 69: lum_to_char = len as f32 / 256. is the f32 n scaled by
\* 2^-8 (exact); the product with the sample is rounded to f32 and `as usize`
\* truncates it.
CharIdx(lum, n) == F32Mul(F32Round(lum), F32Round(n)) \div 256

BucketIdle == bucket = [pc |-> "off"]

BucketInit ==
  \E n \in 1..MaxGlyphs : bucket = [pc |-> "run", n |-> n, i |-> 0]

\* Lines 69-70 and 77 for cell i: the index, the lookup in char_set (which
\* panics on an index >= len), i += 1.
StampCell ==
  /\ bucket.pc \in {"run", "stamped"}
  /\ bucket.i <= 255
  /\ UNCHANGED <<pipeVars, scan, fit, comp>>
  /\ LET idx == CharIdx(bucket.i, bucket.n) IN
       IF idx >= bucket.n
       THEN bucket' = [pc |-> "panicked", n |-> bucket.n, lum |-> bucket.i,
                       idx |-> idx]
       ELSE bucket' = [pc |-> "stamped", n |-> bucket.n, i |-> bucket.i + 1,
                       lum |-> bucket.i, idx |-> idx,
                       prev |-> IF bucket.pc = "run" THEN 0 ELSE bucket.idx]

BucketNext == StampCell

(***************************************************************************)
(* construct_char_set, lines 106-167.  func(height) asks the rasterizer    *)
(* for the glyphs at a font size and measures their ink box; the answer of *)
(* the rasterizer is any pair of sizes, so the requested size adj_font_h   *)
(* itself is not kept.                                                     *)
(***************************************************************************)
MaxFontH == 2       \* font_h, the target cell height
MaxMeasured == 3    \* largest ink-box width or height func may return
MaxRemeasure == 17  \* calls of func after the first one in a run
MaxChars == 2       \* characters in the character set

\* Lines 112-136: what func may return as (glyphs_width, glyphs_height).
FuncResults == (0..MaxMeasured) \X (0..MaxMeasured)

\* Line 142: the condition of the while loop.
LoopContinues(glyphs_height, font_h) == glyphs_height > font_h

FitIdle == fit = [pc |-> "off"]

FitInit ==
  \E font_h \in 0..MaxFontH, n \in 1..MaxChars :
    fit = [pc |-> "first", font_h |-> font_h, chars |-> n]

\* Line 137: the first measurement, at font_h; only its height is kept.
FirstMeasure ==
  /\ fit.pc = "first"
  /\ UNCHANGED <<pipeVars, scan, bucket, comp>>
  /\ \/ \E m \in FuncResults :
          fit' = [pc |-> "second", font_h |-> fit.font_h, chars |-> fit.chars,
                  glyphs_height |-> m[2]]
     \/ fit' = [pc |-> "panicked"]   \* right - left or bottom - top below 0

\* Lines 139-140: adj_font_h = font_h * font_h / glyphs_height, measured again.
SecondMeasure ==
  /\ fit.pc = "second"
  /\ UNCHANGED <<pipeVars, scan, bucket, comp>>
  /\ \/ \E m \in FuncResults :
          fit' = [pc |-> "loop", font_h |-> fit.font_h, chars |-> fit.chars,
                  glyphs_width |-> m[1], glyphs_height |-> m[2],
                  remeasured |-> 1]
     \/ fit' = [pc |-> "panicked"]

\* Lines 142-145: one iteration of the while loop.
LoopStep ==
  /\ fit.pc = "loop"
  /\ LoopContinues(fit.glyphs_height, fit.font_h)
  /\ fit.remeasured < MaxRemeasure
  /\ UNCHANGED <<pipeVars, scan, bucket, comp>>
  /\ \/ \E m \in FuncResults :
          fit' = [fit EXCEPT !.glyphs_width = m[1], !.glyphs_height = m[2],
                             !.remeasured = @ + 1]
     \/ fit' = [pc |-> "panicked"]

\* Lines 142 and 147-166: the loop ends, every character gets a bitmap of
\* glyphs_height rows of glyphs_width bytes, (glyphs_width, glyph_bytes) is
\* returned.
RenderGlyphs ==
  /\ fit.pc = "loop"
  /\ ~LoopContinues(fit.glyphs_height, fit.font_h)
  /\ UNCHANGED <<pipeVars, scan, bucket, comp>>
  /\ fit' = [pc |-> "returned", font_h |-> fit.font_h,
             remeasured |-> fit.remeasured,
             font_w |-> fit.glyphs_width,
             glyph_bytes |-> [g \in 1..fit.chars |->
                                [rows |-> fit.glyphs_height,
                                 cols |-> fit.glyphs_width]]]

FitNext ==
  \/ FirstMeasure
  \/ SecondMeasure
  \/ LoopStep
  \/ RenderGlyphs

(***************************************************************************)
(* Decoder::new, lines 39-53, and decode_frames, lines 55-84: one out_frame *)
(* is allocated once and every decoded frame is stamped into it and sent.   *)
(* Planes are sequences of bytes, byte p of the code at position p + 1.     *)
(***************************************************************************)
MaxFrames == 2   \* frames the decoder releases in a run

\* <<dst_w, dst_h>> of the output frame.
CompDstSizes == {<<4, 2>>, <<4, 4>>}

\* render_h of the settings.
CompRenderHs == {1, 2}

\* Glyph widths construct_char_set may return.
CompFontWs == {2, 3}

\* Bytes a plane's rows are longer than its width (stride - width).
RowPaddings == {0, 1}

\* frame::Video::new does not initialise the planes: byte p of a new plane
\* is (p * seed) % 256 for one of these seeds.
GarbageSeeds == {0, 77}

\* The luminance samples the scaler may produce.
Samples == {0, 200}

Garbage(len, seed) == [p \in 1..len |-> ((p - 1) * seed) % 256]

\* Lines 41-42: data_mut(i).fill(127).
Fill(plane, v) == [p \in 1..Len(plane) |-> v]

\* Lines 147-166: a character set of two glyphs of rows x cols bytes, a blank
\* one and one with ink on every other pixel.
CharSet(rows, cols) ==
  << [r \in 1..rows |-> [c \in 1..cols |-> 0]],
     [r \in 1..rows |-> [c \in 1..cols |->
        IF (r + c) % 2 = 0 THEN 255 ELSE 0]] >>

\* The copy of a line that leaves the destination where the line is 0.
CopyInkOnly(bytes, start, line) ==
  [p \in 1..Len(bytes) |->
    IF p - 1 >= start /\ p - 1 < start + Len(line) /\ line[p - start] # 0
    THEN line[p - start] ELSE bytes[p]]

\* Line 74: bytes[start..(start + line.len())].copy_from_slice(line).
CopyFromSlice(bytes, start, line) ==
  [p \in 1..Len(bytes) |->
    IF p - 1 >= start /\ p - 1 < start + Len(line)
    THEN line[p - start] ELSE bytes[p]]

\* Lines 73-76: the lines of one stamp, start advancing by stride; the slice
\* of line 74 out of range panics.
RECURSIVE StampLines(_, _, _, _)
StampLines(bytes, stamp, start, stride) ==
  IF stamp = <<>> THEN [ok |-> TRUE, bytes |-> bytes]
  ELSE IF start + Len(Head(stamp)) > Len(bytes)
       THEN [ok |-> FALSE, bytes |-> bytes]
       ELSE StampLines(CopyFromSlice(bytes, start, Head(stamp)),
                       Tail(stamp), start + stride, stride)

\* Lines 65-80: the loops over render_data.y and render_data.x, i the index
\* into luminosity; res is the plane so far, or the panic of an index or a
\* slice out of range.
RECURSIVE RenderCells(_, _, _, _, _, _, _)
RenderCells(rd, char_set, stride, padding, luminosity, res, pos) ==
  LET yi == pos[1]
      xi == pos[2]
      i  == pos[3]
  IN IF ~res.ok \/ yi > Len(rd.y) THEN res
     ELSE IF xi > Len(rd.x)
          THEN RenderCells(rd, char_set, stride, padding, luminosity, res,
                           <<yi + 1, 1, i + padding>>)
          ELSE IF i >= Len(luminosity)
                  \/ CharIdx(luminosity[i + 1], Len(char_set))
                       >= Len(char_set)
               THEN [ok |-> FALSE, bytes |-> res.bytes]
               ELSE RenderCells(rd, char_set, stride, padding, luminosity,
                      StampLines(res.bytes,
                        char_set[CharIdx(luminosity[i + 1], Len(char_set)) + 1],
                        rd.x[xi] + rd.y[yi] * stride, stride),
                      <<yi, xi + 1, i + 1>>)

\* Line 59: the plane of scaled_frame the scaler writes for a grid, its row
\* padding left as it was.
Luminosity(grid, r_w, r_h, padding, old) ==
  [p \in 1..((r_w + padding) * r_h) |->
    LET row == (p - 1) \div (r_w + padding)
        col == (p - 1) % (r_w + padding)
    IN IF col < r_w THEN grid[row + 1][col + 1] ELSE old[p]]

Grids(r_w, r_h) == [1..r_h -> [1..r_w -> Samples]]

\* The last two elements of a sequence.
LastTwo(q) == IF Len(q) > 2 THEN Tail(q) ELSE q

CompIdle == comp = [pc |-> "off"]

CompInit ==
  \E dst \in CompDstSizes, render_h \in CompRenderHs, font_w \in CompFontWs,
     short \in {0, 1}, pad \in RowPaddings, spad \in RowPaddings,
     seed \in GarbageSeeds :
    comp = [pc |-> "new", dst_w |-> dst[1], dst_h |-> dst[2],
            render_h |-> render_h, font_w |-> font_w, short |-> short,
            pad |-> pad, spad |-> spad, seed |-> seed]

\* main, lines 232-243 and 328, and Decoder::new, lines 39-53: the glyphs
\* have at most font_h rows; out_frame and scaled_frame are allocated, the
\* two chroma planes of out_frame filled with 127.
DecoderNew ==
  /\ comp.pc = "new"
  /\ UNCHANGED <<pipeVars, scan, bucket, fit>>
  /\ LET font_h == comp.dst_h \div comp.render_h
         glyph_h == IF font_h > comp.short THEN font_h - comp.short ELSE 0
         render_w == comp.dst_w \div comp.font_w
         rd == RenderDataNew(render_w, comp.render_h, comp.dst_w, comp.dst_h)
         stride == comp.dst_w + comp.pad
         cstride == (comp.dst_w \div 2) + comp.pad
         y0 == Garbage(stride * comp.dst_h, comp.seed)
         c0 == Garbage(cstride * (comp.dst_h \div 2), comp.seed)
     IN comp' = [pc |-> "ready", rd |-> rd, font_w |-> comp.font_w,
                 glyph_h |-> glyph_h,
                 char_set |-> CharSet(glyph_h, comp.font_w),
                 stride |-> stride, padding |-> comp.spad,
                 scaled |-> Garbage((render_w + comp.spad) * comp.render_h,
                                    comp.seed),
                 fresh |-> [y |-> y0, u |-> Fill(c0, 127), v |-> Fill(c0, 127)],
                 out_frame |-> [y |-> y0, u |-> Fill(c0, 127),
                                v |-> Fill(c0, 127)],
                 frames |-> 0, sent |-> <<>>]

\* Lines 57-82: one iteration of the while loop of decode_frames: the scaler
\* fills scaled_frame, the glyphs are stamped into out_frame, out_frame is
\* sent to the encoder.  sent keeps the last two frames as they were when sent.
CompositeFrame ==
  /\ comp.pc = "ready"
  /\ comp.frames < MaxFrames
  /\ UNCHANGED <<pipeVars, scan, bucket, fit>>
  /\ \E grid \in Grids(comp.rd.r_w, comp.rd.r_h) :
     \E luminosity \in {Luminosity(grid, comp.rd.r_w, comp.rd.r_h,
                                   comp.padding, comp.scaled)} :
     \E r \in {RenderCells(comp.rd, comp.char_set, comp.stride, comp.padding,
                           luminosity,
                           [ok |-> TRUE, bytes |-> comp.out_frame.y],
                           <<1, 1, 0>>)} :
       IF ~r.ok THEN comp' = [pc |-> "panicked"]
       ELSE comp' = [comp EXCEPT
              !.scaled = luminosity,
              !.out_frame = [@ EXCEPT !.y = r.bytes],
              !.frames = @ + 1,
              !.sent = LastTwo(Append(@, [grid |-> grid,
                                          frame |-> [comp.out_frame EXCEPT
                                                       !.y = r.bytes]]))]

CompNext ==
  \/ DecoderNew
  \/ CompositeFrame

(***************************************************************************)
(* The specifications: the transcode pipeline, and each computation of the *)
(* renderer on its own inputs.                                             *)
(***************************************************************************)
Next ==
  \/ Setup
  \/ ReadPacket
  \/ ReadError
  \/ ReadEnd
  \/ Passthrough
  \/ SendPacket
  \/ DecodeFrame
  \/ DecodeStop
  \/ DecodeError
  \/ EncodePacket
  \/ EncodeStop
  \/ EncodeError
  \/ DecoderEnd
  \/ EncoderEof
  \/ WriteTrailer

Init == PipeInit /\ ScanIdle /\ BucketIdle /\ FitIdle /\ CompIdle

Spec == Init /\ [][Next]_vars

InitScan == PipeIdle /\ ScanInit /\ BucketIdle /\ FitIdle /\ CompIdle

SpecScan == InitScan /\ [][ScanNext]_vars

InitBucket == PipeIdle /\ ScanIdle /\ BucketInit /\ FitIdle /\ CompIdle

SpecBucket == InitBucket /\ [][BucketNext]_vars

InitFit == PipeIdle /\ ScanIdle /\ BucketIdle /\ FitInit /\ CompIdle

SpecFit == InitFit /\ [][FitNext]_vars

InitComp == PipeIdle /\ ScanIdle /\ BucketIdle /\ FitIdle /\ CompInit

SpecComp == InitComp /\ [][CompNext]_vars

(***************************************************************************)
(* Properties of the transcode pipeline.                                   *)
(***************************************************************************)
written == <<outLog, vidWritten, copyWritten>>

\* C1: a completed run has written the trailer exactly once; the trailer is
\* written only after, in this order, the decoder got its end signal, the
\* decoder was drained until it reported that it has no more frames, the
\* encoder got its end signal, and the encoder was drained until it reported
\* that it has no more packets; nothing is written after the trailer.
C1_TrailerAfterDrains ==
  /\ [](/\ trailers <= 1
        /\ (pc = "done" => trailers = 1)
        /\ (trailers = 1 => decEof /\ decDrained /\ encEof /\ encDrained)
        /\ (encEof => decEof /\ decDrained))
  /\ [][trailers >= 1 => UNCHANGED <<written, trailers>>]_vars

\* The order of the calls alone, whatever the drain loops ended on: end
\* signal to the decoder, decode_frames, end signal to the encoder,
\* encode_frames, trailer; nothing is written after the trailer.
CloseSequenceOrder ==
  /\ [](/\ trailers <= 1
        /\ (pc = "done" => trailers = 1)
        /\ (trailers = 1 => decEof /\ encEof)
        /\ (encEof => decEof /\ pc \notin {"decode", "dec_eof"})
        /\ (pc \in {"trailer", "done"} => encEof))
  /\ [][trailers >= 1 => UNCHANGED <<written, trailers>>]_vars

\* C1 for the runs in which no library call returned an error.
TrailerAfterDrainsWithoutErrors ==
  [](~errSeen =>
       /\ (trailers = 1 => decEof /\ decDrained /\ encEof /\ encDrained)
       /\ (encEof => decEof /\ decDrained))

\* C2: at Done nothing is left inside the decoder or the encoder: every frame
\* of the fed video packets went to the encoder and every packet of the
\* encoder was written.
C2_NothingLeftAtDone ==
  pc = "done" =>
    /\ decHeld = 0 /\ decReady = 0
    /\ encHeld = 0 /\ encReady = 0
    /\ framesToEnc = fed
    /\ vidWritten = framesToEnc

\* The same statement for the runs in which no library call returned an error.
NothingLeftAtDoneWithoutErrors == ~errSeen => C2_NothingLeftAtDone

\* C3: a packet of a copied input stream i never goes to the decoder and is
\* written to the output stream that was created as the copy of i.
C3_PassthroughToOwnCopy ==
  /\ \A e \in outLog :
       e[2][1] = "copy" =>
         /\ e[1] + 1 \in DOMAIN outStreams
         /\ outStreams[e[1] + 1] = e[2]
  /\ (pc = "send_packet" => cur = in_vid_stream_idx)

\* C4: no frame is fed to the encoder, and no packet to the decoder, while the
\* stage still holds output of an earlier feed that was not pulled (stated for
\* the runs without any library error).
C4_DrainBetweenFeeds ==
  [][~errSeen' =>
       /\ (framesToEnc' > framesToEnc =>
             encReady = 0 /\ (framesToEnc = 0 \/ encDrained))
       /\ (fed' > fed => decReady = 0 /\ (fed = 0 \/ decDrained))]_vars

\* C5: once a library call has returned a real error, no further packet is
\* read, processed or written, and the trailer is never written.
C5_ErrorTerminates ==
  /\ [](errSeen => trailers = 0)
  /\ [][errSeen => UNCHANGED <<written, trailers, nread, fed, framesToEnc>>]_vars

(***************************************************************************)
(* Properties of the scan map and of the stamped rectangles.               *)
(***************************************************************************)
\* c is the scan map of n cells over dst pixels as the specification gives it.
IsFloorMap(c, n, dst) ==
  /\ Len(c) = n
  /\ \A i \in 1..n :
       /\ c[i] = ((i - 1) * dst) \div n
       /\ c[i] < dst
       /\ (i > 1 => c[i - 1] <= c[i])
  /\ c[1] = 0

\* C6: for gridW, gridH >= 1 and outW >= gridW, outH >= gridH, RenderData::new
\* yields xs[i] = floor(i * outW / gridW) and ys[j] = floor(j * outH / gridH),
\* non-decreasing, starting at 0 and below outW and outH.
C6_ScanMapIsFloor ==
  scan.pc = "built" =>
    LET rd == scan.rd IN
      (rd.r_w >= 1 /\ rd.r_h >= 1 /\ rd.dst_w >= rd.r_w /\ rd.dst_h >= rd.r_h)
        => IsFloorMap(rd.x, rd.r_w, rd.dst_w) /\ IsFloorMap(rd.y, rd.r_h, rd.dst_h)

\* The same statement for the sizes whose products i * outW stay below 2^24.
ScanMapIsFloorBelow2Pow24 ==
  scan.pc = "built" =>
    LET rd == scan.rd IN
      (/\ rd.r_w >= 1 /\ rd.r_h >= 1 /\ rd.dst_w >= rd.r_w /\ rd.dst_h >= rd.r_h
       /\ rd.r_w * rd.dst_w < Pow2(24) /\ rd.r_h * rd.dst_h < Pow2(24))
        => IsFloorMap(rd.x, rd.r_w, rd.dst_w) /\ IsFloorMap(rd.y, rd.r_h, rd.dst_h)

\* The intervals [a, a + e) and [b, b + e) share a pixel.
Overlap(a, b, e) == a < b + e /\ b < a + e

\* Along one axis: every stamp of extent e ends inside dst, and the stamps of
\* neighbouring cells share no pixel.
AxisInsideAndDisjoint(c, e, dst) ==
  /\ \A i \in 1..Len(c) : c[i] + e <= dst
  /\ \A i \in 1..(Len(c) - 1) : ~Overlap(c[i], c[i + 1], e)

\* C7: with the sizes main derives, every stamped rectangle
\* [xs[col], xs[col] + cellWidth) x [ys[row], ys[row] + glyphHeight) lies
\* inside the outW x outH plane and the rectangles of two cells share no pixel.
C7_StampsInsideAndDisjoint ==
  scan.pc = "built" =>
    LET rd == scan.rd IN
      (scan.glyph_h > 0 /\ scan.font_w > 0) =>
        /\ AxisInsideAndDisjoint(rd.x, scan.font_w, rd.dst_w)
        /\ AxisInsideAndDisjoint(rd.y, scan.glyph_h, rd.dst_h)

\* The same statement for the sizes whose products i * outW stay below 2^24.
StampsInsideAndDisjointBelow2Pow24 ==
  scan.pc = "built" =>
    LET rd == scan.rd IN
      (/\ scan.glyph_h > 0 /\ scan.font_w > 0
       /\ rd.r_w * rd.dst_w < Pow2(24) /\ rd.r_h * rd.dst_h < Pow2(24)) =>
        /\ AxisInsideAndDisjoint(rd.x, scan.font_w, rd.dst_w)
        /\ AxisInsideAndDisjoint(rd.y, scan.glyph_h, rd.dst_h)

(***************************************************************************)
(* Properties of the glyph index.                                          *)
(***************************************************************************)
\* C8: for every sample s in 0..255 and every atlas size N in 1..256 the glyph
\* index is floor(s * N / 256), a valid index without a clamp, non-decreasing
\* in s, 0 for s = 0 and N - 1 for s = 255 (4 glyphs: 0 -> 0, 128 -> 2,
\* 255 -> 3).
C8_BucketIsFloor ==
  /\ bucket.pc # "panicked"
  /\ bucket.pc = "stamped" /\ bucket.n <= 256 =>
       /\ bucket.idx = (bucket.lum * bucket.n) \div 256
       /\ bucket.idx \in 0..(bucket.n - 1)
       /\ bucket.prev <= bucket.idx
       /\ (bucket.lum = 0 => bucket.idx = 0)
       /\ (bucket.lum = 255 => bucket.idx = bucket.n - 1)
       /\ (bucket.n = 4 /\ bucket.lum = 128 => bucket.idx = 2)

\* The brightest sample of the largest atlas has been stamped.
C8_Witness ==
  bucket.pc = "stamped" /\ bucket.n = 256 /\ bucket.lum = 255 /\ bucket.idx = 255

(***************************************************************************)
(* Properties of the font auto-fit.                                        *)
(***************************************************************************)
\* C9: the auto-fit always terminates: after at most 16 re-measurements it
\* has returned an atlas that fits or failed with FontFitDidNotConverge, so
\* it is never still measuring after the 16th.
C9_AtMost16Remeasurements ==
  fit.pc = "loop" => fit.remeasured <= 16

\* What construct_char_set does guarantee: whenever it returns, the measured
\* maximum ink height is at most the target height, and every glyph bitmap
\* has that height and the returned width.
ReturnedAtlasFits ==
  fit.pc = "returned" =>
    \A g \in DOMAIN fit.glyph_bytes :
      /\ fit.glyph_bytes[g].rows <= fit.font_h
      /\ fit.glyph_bytes[g].rows = fit.glyph_bytes[1].rows
      /\ fit.glyph_bytes[g].cols = fit.font_w

(***************************************************************************)
(* Properties of the reused output frame.                                  *)
(***************************************************************************)
\* The cells of the grid whose rectangle holds pixel <<px, py>>.
CellsAt(px, py) ==
  {c \in (1..comp.rd.r_h) \X (1..comp.rd.r_w) :
     /\ comp.rd.x[c[2]] <= px /\ px < comp.rd.x[c[2]] + comp.font_w
     /\ comp.rd.y[c[1]] <= py /\ py < comp.rd.y[c[1]] + comp.glyph_h}

\* The last of a set of cells in the order the cells are stamped.
LastCell(cs) ==
  CHOOSE c \in cs : \A d \in cs :
    d[1] < c[1] \/ (d[1] = c[1] /\ d[2] <= c[2])

\* The luminance plane of a grid composited into a fresh template: a pixel
\* of a cell rectangle is the pixel of the glyph of that cell's sample, any
\* other pixel is the template's.
FreshComposite(grid) ==
  [p \in 1..Len(comp.fresh.y) |->
    LET px == (p - 1) % comp.stride
        py == (p - 1) \div comp.stride
        cs == CellsAt(px, py)
    IN IF cs = {} THEN comp.fresh.y[p]
       ELSE LET c == LastCell(cs)
                bucket_of == (grid[c[1]][c[2]] * Len(comp.char_set)) \div 256
            IN comp.char_set[bucket_of + 1][py - comp.rd.y[c[1]] + 1]
                                           [px - comp.rd.x[c[2]] + 1]]

\* C10: every frame sent to the encoder has the luminance plane of its own
\* grid composited into a fresh template, whatever was stamped before, and
\* the chroma planes of the initial fill with 127.
C10_SentFrameIsOfItsGridAlone ==
  comp.pc = "ready" =>
    \A k \in 1..Len(comp.sent) :
      /\ comp.sent[k].frame.y = FreshComposite(comp.sent[k].grid)
      /\ comp.sent[k].frame.u = comp.fresh.u
      /\ comp.sent[k].frame.v = comp.fresh.v
      /\ \A p \in 1..Len(comp.fresh.u) :
           comp.fresh.u[p] = 127 /\ comp.fresh.v[p] = 127

\* Two frames of different grids were sent, the second over the ink of the
\* first, into a frame with bytes outside every cell.
C10_Witness ==
  /\ comp.pc = "ready"
  /\ comp.frames >= 2
  /\ comp.sent[1].frame.y # comp.sent[2].frame.y
  /\ comp.sent[1].grid[1][1] = 200
  /\ comp.sent[2].grid[1][1] = 0
  /\ comp.glyph_h > 0
  /\ \E p \in 1..Len(comp.fresh.y) :
       /\ CellsAt((p - 1) % comp.stride, (p - 1) \div comp.stride) = {}
       /\ comp.fresh.y[p] # 0

====
